---- MODULE Spec2Model ----
(***************************************************************************)
(* Model of Mused: the piano-roll pipeline of mused/Midi.py (track         *)
(* classification, pitch-window cut, merge, vectorise, augment, export)    *)
(* and the model wrapper of Gru.py (build / set_model / load / save /      *)
(* train).                                                                 *)
(*                                                                         *)
(* A piano-roll row is the set of its active pitches; a roll is a record   *)
(* [w |-> pitch width, rows |-> sequence of rows], which keeps the shape   *)
(* of an array with zero rows.  Track names are sequences of one-character *)
(* strings so that lowering, stripping and substring search are computed.  *)
(***************************************************************************)
EXTENDS Integers, Sequences, FiniteSets, TLC

VARIABLES
    \* ---- classification of one track (Midi.load_midi, lines 84-98)
    track,          \* the track handed to the classification chain
    analysis,       \* the analysis dictionary of load_midi
    fatal,          \* TRUE when the chain reached its else branch (return -1)
    cpc,            \* "start" before the chain ran, "done" after
    \* ---- the Midi object
    num_pitches, notes_above, cut, tempo, roll,
    last,           \* the last Midi call: its arguments, outcome and result
    \* ---- the Gru object
    model, name, model_dir,
    disk,           \* the model files on disk: path -> saved model
    glast           \* the last Gru call: its arguments and outcome

classifyVars == <<track, analysis, fatal, cpc>>
midiVars     == <<num_pitches, notes_above, cut, tempo, roll, last>>
gruVars      == <<model, name, model_dir, disk, glast>>
vars         == <<track, analysis, fatal, cpc,
                  num_pitches, notes_above, cut, tempo, roll, last,
                  model, name, model_dir, disk, glast>>

(***************************************************************************)
(* Program constants                                                       *)
(***************************************************************************)
MIDDLE_C == 64
MIDI_INPUTS == 128

S_drums == <<"d","r","u","m","s">>
S_congos == <<"c","o","n","g","o","s">>
S_cymbals == <<"c","y","m","b","a","l","s">>
S_hits == <<"h","i","t","s">>
S_piano == <<"p","i","a","n","o">>
S_accoustic_piano == <<"a","c","c","o","u","s","t","i","c"," ","p","i","a","n","o">>
S_guitar == <<"g","u","i","t","a","r">>
S_flutevibes == <<"f","l","u","t","e","v","i","b","e","s">>
S_bass == <<"b","a","s","s">>
S_fretless_bass == <<"f","r","e","t","l","e","s","s"," ","b","a","s","s">>
S_trumpet == <<"t","r","u","m","p","e","t">>
S_alto == <<"a","l","t","o">>
S_tenor == <<"t","e","n","o","r">>
S_trombone == <<"t","r","o","m","b","o","n","e">>
S_he_harmonica == <<"h","e"," ","h","a","r","m","o","n","i","c","a">>
S_she_flute == <<"s","h","e"," ","f","l","u","t","e">>

DRUM_NAMES == <<S_drums, S_congos, S_cymbals, S_hits>>
PIANO_NAMES == <<S_piano, S_accoustic_piano, S_guitar, S_flutevibes>>
BASS_NAMES == <<S_bass, S_fretless_bass>>
OTHER_NAMES == <<S_trumpet, S_alto, S_tenor, S_trombone, S_he_harmonica, S_she_flute>>

(***************************************************************************)
(* Text helpers: str.lower, str.isalpha, remove_non_ascii, `n in t`        *)
(***************************************************************************)
UpperLetters == <<"A","B","C","D","E","F","G","H","I","J","K","L","M",
                  "N","O","P","Q","R","S","T","U","V","W","X","Y","Z">>
LowerLetters == <<"a","b","c","d","e","f","g","h","i","j","k","l","m",
                  "n","o","p","q","r","s","t","u","v","w","x","y","z">>

LowerChar(c) ==
    IF \E i \in 1..Len(UpperLetters) : UpperLetters[i] = c
    THEN LowerLetters[CHOOSE i \in 1..Len(UpperLetters) : UpperLetters[i] = c]
    ELSE c

Lower(text) == [i \in 1..Len(text) |-> LowerChar(text[i])]

IsAlpha(c) ==
    \E i \in 1..Len(LowerLetters) : LowerLetters[i] = c \/ UpperLetters[i] = c

KeepChar(c) == IsAlpha(c) \/ c = " "

\* ''.join(i for i in text.lower() if i.isalpha() or i == " ")
remove_non_ascii(text) == SelectSeq(Lower(text), KeepChar)

\* Python's `n in t` on strings: n occurs in t as a contiguous substring
Contains(n, t) ==
    \E i \in 0..(Len(t) - Len(n)) : SubSeq(t, i + 1, i + Len(n)) = n

AnyNameIn(names, t) == \E k \in 1..Len(names) : Contains(names[k], t)

(***************************************************************************)
(* The four classification predicates                                      *)
(***************************************************************************)
is_drum(t) ==
    \/ AnyNameIn(DRUM_NAMES, remove_non_ascii(Lower(t.name)))
    \/ t.is_drum

is_piano(t) ==
    \/ t.program < 32
    \/ AnyNameIn(PIANO_NAMES, remove_non_ascii(Lower(t.name)))

is_bass(t) ==
    \/ AnyNameIn(BASS_NAMES, remove_non_ascii(Lower(t.name)))
    \/ (t.program > 31 /\ t.program < 40)

is_other(t) ==
    \/ AnyNameIn(OTHER_NAMES, remove_non_ascii(Lower(t.name)))
    \/ t.program > 39

EmptyAnalysis == [piano |-> 0, drums |-> 0, bass |-> 0, other |-> 0]

\* the chain with the bass and drum tests exchanged
AnalyseTrackDrumFirst(a, t) ==
    IF is_piano(t) THEN [analysis |-> [a EXCEPT !.piano = @ + 1], fatal |-> FALSE]
    ELSE IF is_drum(t) THEN [analysis |-> [a EXCEPT !.drums = @ + 1], fatal |-> FALSE]
    ELSE IF is_bass(t) THEN [analysis |-> [a EXCEPT !.bass = @ + 1], fatal |-> FALSE]
    ELSE IF is_other(t) THEN [analysis |-> [a EXCEPT !.other = @ + 1], fatal |-> FALSE]
    ELSE [analysis |-> a, fatal |-> TRUE]

\* one pass of the if / elif chain of load_midi over a track: the counter it
\* increments, or the else branch that returns -1
AnalyseTrack(a, t) ==
    IF is_piano(t) THEN [analysis |-> [a EXCEPT !.piano = @ + 1], fatal |-> FALSE]
    ELSE IF is_bass(t) THEN [analysis |-> [a EXCEPT !.bass = @ + 1], fatal |-> FALSE]
    ELSE IF is_drum(t) THEN [analysis |-> [a EXCEPT !.drums = @ + 1], fatal |-> FALSE]
    ELSE IF is_other(t) THEN [analysis |-> [a EXCEPT !.other = @ + 1], fatal |-> FALSE]
    ELSE [analysis |-> a, fatal |-> TRUE]

(***************************************************************************)
(* Inputs of the classification: names, program numbers, drum flags        *)
(***************************************************************************)
N_Piano1 == <<"P","i","a","n","o"," ","1">>
N_P_iano == <<"P","-","i","a","n","o">>
N_DRUMS == <<"D","R","U","M","S">>
N_BassDrums == <<"B","a","s","s"," ","D","r","u","m","s">>
N_FretlessBass == <<"F","r","e","t","l","e","s","s"," ","B","a","s","s">>
N_Trumpet == <<"T","r","u","m","p","e","t">>
N_AltoSax == <<"A","l","t","o"," ","S","a","x">>
N_SynthPad == <<"S","y","n","t","h"," ","P","a","d">>
N_FluteVibes == <<"F","l","u","t","e","/","V","i","b","e","s">>
N_GuitarBass == <<"G","u","i","t","a","r"," ","B","a","s","s">>
N_Empty == <<>>
N_PianoL == <<"P","i","a","n","o"," ","L">>
N_PianoR == <<"P","i","a","n","o"," ","R">>
N_PianoBass == <<"P","i","a","n","o"," ","B","a","s","s">>
N_Guitar == <<"G","u","i","t","a","r">>
N_Drums == <<"D","r","u","m","s">>

TrackNames == {N_Piano1, N_P_iano, N_DRUMS, N_BassDrums, N_FretlessBass, N_Trumpet,
               N_AltoSax, N_SynthPad, N_FluteVibes, N_GuitarBass, N_Empty, N_PianoBass}

\* MIDI program numbers at and around the limits the predicates test
ProgramChoices == {0, 31, 32, 39, 40, 127}

NoRows == <<>>

ClassifyInputs ==
    [name : TrackNames, program : ProgramChoices, is_drum : BOOLEAN, pianoroll : {NoRows}]

(***************************************************************************)
(* Arrays: Python slices, numpy assignment with broadcasting, np.roll      *)
(***************************************************************************)
None == [set |-> FALSE, w |-> 0, rows |-> <<>>]

Array(w, rows) == [set |-> TRUE, w |-> w, rows |-> rows]

\* a slice bound i on an axis of length n, as Python resolves it: a negative
\* bound counts from the end, and every bound is clamped to 0..n
NormIdx(i, n) ==
    IF i < 0 THEN (IF i + n < 0 THEN 0 ELSE i + n)
    ELSE (IF i > n THEN n ELSE i)

SliceStart(lo, n) == NormIdx(lo, n)

SliceWidth(lo, hi, n) ==
    IF NormIdx(hi, n) > NormIdx(lo, n) THEN NormIdx(hi, n) - NormIdx(lo, n) ELSE 0

\* a[lo:hi] on a sequence of rows
SliceRows(rows, lo, hi) ==
    SubSeq(rows, NormIdx(lo, Len(rows)) + 1, NormIdx(hi, Len(rows)))

\* row[lo:hi] on the pitch axis of a row of width n
SliceRow(row, lo, hi, n) ==
    {p - NormIdx(lo, n) : p \in {q \in row : NormIdx(lo, n) <= q /\ q < NormIdx(hi, n)}}

\* numpy accepts target[..., :] = source when the pitch widths agree or the
\* source has width 1 (its single column is then repeated); otherwise it raises
\* ValueError, also when there are no rows
Broadcastable(sw, tw) == sw = tw \/ sw = 1

BroadcastRow(row, sw, tw) ==
    IF sw = tw THEN row ELSE (IF 0 \in row THEN 0..(tw - 1) ELSE {})

BroadcastRows(rows, sw, tw) == [i \in 1..Len(rows) |-> BroadcastRow(rows[i], sw, tw)]

\* target[index : index + len(source)] = source, rows counted from 0
AssignRows(target, index, source) ==
    [i \in 1..Len(target) |->
        IF index < i /\ i <= index + Len(source) THEN source[i - index] ELSE target[i]]

Zeros(n) == [i \in 1..n |-> {}]

\* a shift that drops the notes pushed over the edge instead of wrapping them
RollRowNoWrap(row, shift, w) ==
    {p + shift : p \in {q \in row : 0 <= q + shift /\ q + shift < w}}

\* np.roll(row, shift) on the pitch axis: the note at p moves to (p + shift) mod w
RollRow(row, shift, w) ==
    {(p + shift) % w : p \in row}

RollRows(rows, shift, w) == [i \in 1..Len(rows) |-> RollRow(rows[i], shift, w)]

(***************************************************************************)
(* MIDI files as pypianoroll reads them: a tempo and a list of tracks      *)
(***************************************************************************)
Track(nm, program, drum, pianoroll) ==
    [name |-> nm, program |-> program, is_drum |-> drum, pianoroll |-> pianoroll]

\* a guitar, a drum kit on program 0 and a bass
FileBand ==
    [tempo |-> 120,
     tracks |-> <<Track(N_Guitar, 24, FALSE, <<{65}>>),
                  Track(N_Drums, 0, TRUE, <<{36}, {38}>>),
                  Track(N_FretlessBass, 35, FALSE, <<{40}>>)>>]

\* no track passes the filter: two horns, and a bass the chain counts as piano
FileHorns ==
    [tempo |-> 96,
     tracks |-> <<Track(N_Trumpet, 56, FALSE, <<{70}>>),
                  Track(N_AltoSax, 65, FALSE, <<{72}>>),
                  Track(N_PianoBass, 0, FALSE, <<{30}>>)>>]

\* two piano tracks of different lengths, with notes below, inside and above
\* every window
FileDuo ==
    [tempo |-> 120,
     tracks |-> <<Track(N_PianoL, 0, FALSE, <<{62, 64}, {0, 63, 127}>>),
                  Track(N_PianoR, 1, FALSE, <<{62, 66}>>)>>]

FileLib == {FileBand, FileHorns, FileDuo}

MaxFiles == 2

FileLists == UNION {[1..n -> FileLib] : n \in 0..MaxFiles}

Max(a, b) == IF a > b THEN a ELSE b

RECURSIVE MaxLen(_, _)
MaxLen(tracks, k) ==
    IF k > Len(tracks) THEN 0 ELSE Max(Len(tracks[k].pianoroll), MaxLen(tracks, k + 1))

\* multitrack.binarize().blend('any'): the tracks padded to the longest and OR-ed
Blend(tracks) ==
    [i \in 1..MaxLen(tracks, 1) |->
        UNION {tracks[k].pianoroll[i] :
                 k \in {j \in 1..Len(tracks) : i <= Len(tracks[j].pianoroll)}}]

(***************************************************************************)
(* Midi.load_midi                                                          *)
(***************************************************************************)
\* the Midi object as a value, so that one method can call another
Self ==
    [num_pitches |-> num_pitches, notes_above |-> notes_above, cut |-> cut,
     tempo |-> tempo, roll |-> roll]

\* the analysis loop over the tracks of one file; it stops at the first track
\* that no predicate accepts
RECURSIVE AnalyseTracks(_, _, _)
AnalyseTracks(tracks, k, a) ==
    IF k > Len(tracks) THEN [analysis |-> a, fatal |-> FALSE]
    ELSE LET r == AnalyseTrack(a, tracks[k])
         IN  IF r.fatal THEN r ELSE AnalyseTracks(tracks, k + 1, r.analysis)

\* the filter of multitrack.tracks[:] = [x for x in ... if ...]
KeepTrack(x) ==
    (~(is_drum(x) \/ is_bass(x) \/ is_other(x))) /\ is_piano(x)

\* roll[:, MIDDLE_C - notes_above : MIDDLE_C + notes_above] when cut, else roll
Refine(rows, c, na) ==
    IF c
    THEN Array(SliceWidth(MIDDLE_C - na, MIDDLE_C + na, MIDI_INPUTS),
               [i \in 1..Len(rows) |->
                   SliceRow(rows[i], MIDDLE_C - na, MIDDLE_C + na, MIDI_INPUTS)])
    ELSE Array(MIDI_INPUTS, rows)

\* per file of the library: whether its analysis loop ends in return -1, the
\* tracks its filter keeps, and their blend (each computed once)
FileFatal == [f \in FileLib |-> AnalyseTracks(f.tracks, 1, EmptyAnalysis).fatal]

FileKept == [f \in FileLib |-> SelectSeq(f.tracks, KeepTrack)]

FileBlend == [f \in FileLib |-> Blend(FileKept[f])]

\* a file without a kept track ends the loop
AfterNoPianoBreak(fnames, i) == Len(fnames) + 1

\* `continue`: a file without a kept track is passed over and the loop goes on
AfterNoPiano(fnames, i) == i + 1

\* the loop over fnames from file i on: the rolls collected, the tempo read
\* last, and whether a track sent the call to its return -1
RECURSIVE LoopFiles(_, _, _, _, _, _)
LoopFiles(fnames, i, rolls, tp, c, na) ==
    IF i > Len(fnames) THEN [aborted |-> FALSE, rolls |-> rolls, tempo |-> tp]
    ELSE LET f == fnames[i]
         IN  IF FileFatal[f]
             THEN [aborted |-> TRUE, rolls |-> rolls, tempo |-> f.tempo]
             ELSE IF Len(FileKept[f]) = 0
             THEN LoopFiles(fnames, AfterNoPiano(fnames, i), rolls, f.tempo, c, na)
             ELSE LoopFiles(fnames, i + 1, Append(rolls, Refine(FileBlend[f], c, na)),
                            f.tempo, c, na)

RECURSIVE SumLen(_, _)
SumLen(rolls, k) ==
    IF k > Len(rolls) THEN 0 ELSE Len(rolls[k].rows) + SumLen(rolls, k + 1)

\* the fill loop: extended[index:index + roll.shape[0], :] = roll
RECURSIVE MergeLoop(_, _, _, _, _)
MergeLoop(rolls, k, index, extended, w) ==
    IF k > Len(rolls) THEN [ok |-> TRUE, rows |-> extended]
    ELSE IF ~Broadcastable(rolls[k].w, w) THEN [ok |-> FALSE, rows |-> extended]
    ELSE MergeLoop(rolls, k + 1, index + Len(rolls[k].rows),
                   AssignRows(extended, index, BroadcastRows(rolls[k].rows, rolls[k].w, w)),
                   w)

load_midi(self, fnames) ==
    LET r == LoopFiles(fnames, 1, <<>>, self.tempo, self.cut, self.notes_above)
        m == MergeLoop(r.rolls, 1, 0, Zeros(SumLen(r.rolls, 1)), self.num_pitches)
        call == [op |-> "load_midi", fnames |-> fnames, rolls |-> r.rolls]
    IN  IF r.aborted
        THEN [self |-> [self EXCEPT !.tempo = r.tempo],
              ret  |-> call @@ [status |-> "sentinel", pre |-> self.roll]]
        ELSE IF ~m.ok
        THEN [self |-> [self EXCEPT !.tempo = r.tempo],
              ret  |-> call @@ [status |-> "ValueError"]]
        ELSE [self |-> [self EXCEPT !.tempo = r.tempo,
                                    !.roll = Array(self.num_pitches, m.rows)],
              ret  |-> call @@ [status |-> "ok"]]

(***************************************************************************)
(* Midi.load_np (a 3-d roll of one block is first reshaped to its block)   *)
(***************************************************************************)
load_np(self, r, tp) ==
    LET s == IF r.w > MIDI_INPUTS THEN self
             ELSE IF r.w = MIDI_INPUTS THEN [self EXCEPT !.cut = FALSE]
             ELSE [self EXCEPT !.num_pitches = r.w, !.notes_above = r.w \div 2,
                               !.cut = TRUE]
    IN  [self |-> [s EXCEPT !.roll = r, !.tempo = tp],
         ret  |-> [op |-> "load_np", status |-> "ok"]]

(***************************************************************************)
(* Midi.vectorise                                                          *)
(***************************************************************************)
\* the label taken from the last row of the phrase
NextNoteIndexInside(i, lookback) == i + lookback - 1

\* the index of the label of the phrase that starts at i
NextNoteIndex(i, lookback) == i + lookback

\* for i in range(i, stop, step): the phrases and labels appended, or the
\* IndexError of a label index outside the roll
RECURSIVE RangeLoop(_, _, _, _, _, _, _)
RangeLoop(rows, i, stop, step, lookback, phrases, next_notes) ==
    IF i >= stop THEN [ok |-> TRUE, phrases |-> phrases, next_notes |-> next_notes]
    ELSE LET j == NextNoteIndex(i, lookback)
         IN  IF j >= Len(rows) \/ j < -Len(rows)
             THEN [ok |-> FALSE, phrases |-> phrases, next_notes |-> next_notes]
             ELSE RangeLoop(rows, i + step, stop, step, lookback,
                            Append(phrases, SliceRows(rows, i, i + lookback)),
                            Append(next_notes,
                                   rows[(IF j < 0 THEN j + Len(rows) ELSE j) + 1]))

vectorise(self, lookback, step) ==
    LET call == [op |-> "vectorise", lookback |-> lookback, step |-> step]
        l == RangeLoop(self.roll.rows, 0, Len(self.roll.rows) - lookback, step, lookback,
                       <<>>, <<>>)
        w == self.roll.w
        n == self.num_pitches
    IN  IF ~self.roll.set
        THEN [self |-> self, ret |-> call @@ [status |-> "AttributeError"]]
        ELSE IF ~l.ok
        THEN [self |-> self, ret |-> call @@ [status |-> "IndexError"]]
        ELSE IF Len(l.phrases) > 0 /\ ~Broadcastable(w, n)
        THEN [self |-> self, ret |-> call @@ [status |-> "ValueError"]]
        ELSE [self |-> self,
              ret  |-> call @@
                  [status |-> "ok",
                   x |-> [k \in 1..Len(l.phrases) |-> BroadcastRows(l.phrases[k], w, n)],
                   y |-> BroadcastRows(l.next_notes, w, n)]]

(***************************************************************************)
(* Midi.augment                                                            *)
(***************************************************************************)
\* for i in range(i, n_augments//2 + 1): the copy shifted up, then the copy
\* shifted down, each written at index and index advanced by the roll length
RECURSIVE AugmentLoop(_, _, _, _, _, _, _)
AugmentLoop(r, n, i, half, v_step, index, new_roll) ==
    IF i > half THEN new_roll
    ELSE AugmentLoop(r, n, i + 1, half, v_step, index + 2 * Len(r.rows),
            AssignRows(
                AssignRows(new_roll, index,
                           BroadcastRows(RollRows(r.rows, i * v_step, r.w), r.w, n)),
                index + Len(r.rows),
                BroadcastRows(RollRows(r.rows, (-i) * v_step, r.w), r.w, n)))

augment(self, n_augments, v_step) ==
    LET call == [op |-> "augment", n |-> n_augments, v |-> v_step, pre |-> self.roll]
        r == self.roll
        L == Len(r.rows)
        n == self.num_pitches
        new_roll == AssignRows(Zeros(L * ((n_augments \div 2) * 2 + 1)), 0,
                               BroadcastRows(r.rows, r.w, n))
    IN  IF ~r.set
        THEN [self |-> self, ret |-> call @@ [status |-> "no roll"]]
        ELSE IF ~Broadcastable(r.w, n)
        THEN [self |-> self, ret |-> call @@ [status |-> "ValueError"]]
        ELSE [self |-> [self EXCEPT !.roll =
                          Array(n, AugmentLoop(r, n, 1, n_augments \div 2, v_step, L, new_roll))],
              ret  |-> call @@ [status |-> "ok"]]

(***************************************************************************)
(* Midi.reformat_roll, Midi.save, Midi.preview_data                        *)
(***************************************************************************)
\* export[:, MIDDLE_C - notes_above : MIDDLE_C + notes_above] = self.roll
reformat_roll(self) ==
    LET r == self.roll
        lo == MIDDLE_C - self.notes_above
        hi == MIDDLE_C + self.notes_above
        tw == SliceWidth(lo, hi, MIDI_INPUTS)
    IN  IF ~r.set THEN [status |-> "AttributeError", export |-> None]
        ELSE IF ~Broadcastable(r.w, tw) THEN [status |-> "ValueError", export |-> None]
        ELSE [status |-> "ok",
              export |-> Array(MIDI_INPUTS,
                  [i \in 1..Len(r.rows) |->
                      {p + SliceStart(lo, MIDI_INPUTS) : p \in BroadcastRow(r.rows[i], r.w, tw)}])]

\* the roll handed to pypianoroll for writing
save(self) ==
    LET call == [op |-> "save"]
        e == reformat_roll(self)
    IN  IF self.cut
        THEN [self |-> self, ret |-> call @@ [status |-> e.status, out |-> e.export]]
        ELSE IF ~self.roll.set
        THEN [self |-> self, ret |-> call @@ [status |-> "AttributeError", out |-> None]]
        ELSE [self |-> self, ret |-> call @@ [status |-> "ok", out |-> self.roll]]

\* self.cut = True; self.load_midi([midi_fname]); self.augment(2); self.save(fname)
\* (the value load_midi returns is not looked at)
preview_data(self, f) ==
    LET call == [op |-> "preview_data", fnames |-> <<f>>]
        a == load_midi([self EXCEPT !.cut = TRUE], <<f>>)
        b == augment(a.self, 2, 5)
        c == save(b.self)
    IN  IF a.ret.status = "ValueError"
        THEN [self |-> a.self, ret |-> call @@ [status |-> "ValueError", out |-> None]]
        ELSE IF b.ret.status = "ValueError"
        THEN [self |-> b.self, ret |-> call @@ [status |-> "ValueError", out |-> None]]
        ELSE [self |-> c.self, ret |-> call @@ [status |-> c.ret.status, out |-> c.ret.out]]

(***************************************************************************)
(* The Midi object as a state machine                                      *)
(***************************************************************************)
\* num_pitches handed to Midi(...): odd, even, the full range and beyond it
NumPitchesChoices == {3, 4, 128, 130}

\* rolls handed to load_np: full width, narrow even, narrow odd, too wide
NpLib ==
    { Array(128, <<{0, 127}, {64}>>),
      Array(4, <<{0}, {1, 3}, {2}>>),
      Array(3, <<{0, 2}>>),
      Array(130, <<{129}>>) }

TempoChoices == {120}

MaxRollLen == 9
MaxAugments == 3
MaxLookback == 2
MaxStep == 2
VStepChoices == {1, 5}

\* self.model = None
NoModel == [built |-> FALSE, arch |-> <<>>, fitted |-> 0]

SetSelf(s) ==
    /\ num_pitches' = s.num_pitches
    /\ notes_above' = s.notes_above
    /\ cut' = s.cut
    /\ tempo' = s.tempo
    /\ roll' = s.roll

Return(r) == SetSelf(r.self) /\ last' = r.ret

InitClassifyIdle ==
    /\ track = Track(N_Empty, 0, FALSE, NoRows)
    /\ analysis = EmptyAnalysis
    /\ fatal = FALSE
    /\ cpc = "idle"

InitGruIdle ==
    /\ model = NoModel
    /\ name = <<>>
    /\ model_dir = <<>>
    /\ disk = <<>>
    /\ glast = [op |-> "idle", status |-> "ok"]

InitMidiIdle ==
    /\ num_pitches = MIDI_INPUTS
    /\ notes_above = MIDI_INPUTS \div 2
    /\ cut = TRUE
    /\ tempo = "None"
    /\ roll = None
    /\ last = [op |-> "idle", status |-> "ok"]

\* Midi.__init__
InitMidi ==
    /\ num_pitches \in NumPitchesChoices
    /\ notes_above = num_pitches \div 2
    /\ cut \in BOOLEAN
    /\ tempo = "None"
    /\ roll = None
    /\ last = [op |-> "init", status |-> "ok"]

LoadMidi ==
    /\ \E fnames \in FileLists : Return(load_midi(Self, fnames))
    /\ UNCHANGED <<classifyVars, gruVars>>

LoadNp ==
    /\ \E r \in NpLib, tp \in TempoChoices : Return(load_np(Self, r, tp))
    /\ UNCHANGED <<classifyVars, gruVars>>

Vectorise ==
    /\ \E lookback \in 0..MaxLookback, step \in 1..MaxStep :
          Return(vectorise(Self, lookback, step))
    /\ UNCHANGED <<classifyVars, gruVars>>

Augment ==
    /\ \E n \in 0..MaxAugments, v \in VStepChoices :
          /\ Len(roll.rows) * ((n \div 2) * 2 + 1) <= MaxRollLen
          /\ Return(augment(Self, n, v))
    /\ UNCHANGED <<classifyVars, gruVars>>

ReformatRoll ==
    /\ last' = [op |-> "reformat_roll", after |-> last.op,
                fnames |-> IF last.op = "load_midi" /\ last.status = "ok"
                           THEN last.fnames ELSE <<>>]
               @@ reformat_roll(Self)
    /\ UNCHANGED <<num_pitches, notes_above, cut, tempo, roll, classifyVars, gruVars>>

Save ==
    /\ Return(save(Self))
    /\ UNCHANGED <<classifyVars, gruVars>>

PreviewData ==
    /\ \E f \in FileLib : Return(preview_data(Self, f))
    /\ UNCHANGED <<classifyVars, gruVars>>

Init == InitMidi /\ InitClassifyIdle /\ InitGruIdle

Next == LoadMidi \/ LoadNp \/ Vectorise \/ Augment \/ ReformatRoll \/ Save \/ PreviewData

Spec == Init /\ [][Next]_vars

(***************************************************************************)
(* Gru: the model wrapper.  A model is [built, arch, fitted]: the topology  *)
(* it was built with and the number of epochs fitted so far.  Paths are     *)
(* sequences of characters, and the disk maps each written path to the      *)
(* model saved there.                                                       *)
(***************************************************************************)
Ext_h5 == <<".", "h", "5">>

DirChoices == { <<"m", "/">>, <<>> }
NameChoices == { <<"a">>, <<"b">> }

\* a path outside the naming scheme, for calls of save and load by hand
OtherPath == <<"x", ".", "h", "5">>

\* a model made elsewhere and handed to set_model
ExternalModel == [built |-> TRUE, arch |-> <<"external">>, fitted |-> 0]

MaxFitted == 2
MaxEpochs == 2
LookbackChoices == {1, 2}
PitchChoices == {4}

GruSelf == [model |-> model, name |-> name, model_dir |-> model_dir]

\* functions.save_model(model, fname): the file at fname becomes the model;
\* without a model nothing is written and the call raises
save_model(d, m, fname) ==
    IF ~m.built THEN [status |-> "AttributeError", disk |-> d]
    ELSE [status |-> "ok",
          disk |-> [q \in (DOMAIN d) \cup {fname} |-> IF q = fname THEN m ELSE d[q]]]

\* functions.load_model(fname): the model saved at fname, or an error
load_model(d, fname) ==
    IF fname \in DOMAIN d THEN [status |-> "ok", model |-> d[fname]]
    ELSE [status |-> "OSError", model |-> NoModel]

\* Gru.build: a compiled, unfitted model of the fixed topology
build(self, d, lookback, pitches, loss) ==
    [self |-> [self EXCEPT !.model =
                  [built |-> TRUE, arch |-> <<lookback, pitches, loss>>, fitted |-> 0]],
     disk |-> d,
     ret  |-> [op |-> "build", status |-> "ok"]]

set_model(self, d, m) ==
    [self |-> [self EXCEPT !.model = m], disk |-> d,
     ret  |-> [op |-> "set_model", status |-> "ok"]]

gru_load(self, d, fname) ==
    LET l == load_model(d, fname)
    IN  IF l.status = "ok"
        THEN [self |-> [self EXCEPT !.model = l.model], disk |-> d,
              ret  |-> [op |-> "load", status |-> "ok", fname |-> fname]]
        ELSE [self |-> self, disk |-> d,
              ret  |-> [op |-> "load", status |-> l.status, fname |-> fname]]

gru_save(self, d, fname) ==
    LET w == save_model(d, self.model, fname)
    IN  [self |-> self, disk |-> w.disk,
         ret  |-> [op |-> "save", status |-> w.status, fname |-> fname]]

\* the path train saves to
ModelPath(self) == self.model_dir \o self.name \o Ext_h5

\* train that returns the history without saving
trainNoSave(self, d, epochs, fit_ok) ==
    LET call == [op |-> "train", epochs |-> epochs]
    IN  IF ~self.model.built
        THEN [self |-> self, disk |-> d, ret |-> call @@ [status |-> "AttributeError"]]
        ELSE IF ~fit_ok
        THEN [self |-> self, disk |-> d, ret |-> call @@ [status |-> "fit raised"]]
        ELSE [self |-> [self EXCEPT !.model.fitted = @ + epochs], disk |-> d,
              ret |-> call @@ [status |-> "ok"]]

\* Gru.train: self.model.fit(...), which fails on a missing model and may raise
\* on its own (fit_ok), then self.save(self.model_dir + self.name + ".h5")
train(self, d, epochs, fit_ok) ==
    LET call == [op |-> "train", epochs |-> epochs]
        fitted == [self EXCEPT !.model.fitted = @ + epochs]
        w == gru_save(fitted, d, ModelPath(fitted))
    IN  IF ~self.model.built
        THEN [self |-> self, disk |-> d, ret |-> call @@ [status |-> "AttributeError"]]
        ELSE IF ~fit_ok
        THEN [self |-> self, disk |-> d, ret |-> call @@ [status |-> "fit raised"]]
        ELSE [self |-> fitted, disk |-> w.disk, ret |-> call @@ [status |-> w.ret.status]]

GruReturn(r) ==
    /\ model' = r.self.model
    /\ name' = r.self.name
    /\ model_dir' = r.self.model_dir
    /\ disk' = r.disk
    /\ glast' = r.ret

\* Gru.__init__
InitGru ==
    /\ model = NoModel
    /\ name \in NameChoices
    /\ model_dir \in DirChoices
    /\ disk = <<>>
    /\ glast = [op |-> "init", status |-> "ok"]

Build ==
    /\ \E lb \in LookbackChoices, p \in PitchChoices :
          GruReturn(build(GruSelf, disk, lb, p, "binary_crossentropy"))
    /\ UNCHANGED <<classifyVars, midiVars>>

SetModel ==
    /\ GruReturn(set_model(GruSelf, disk, ExternalModel))
    /\ UNCHANGED <<classifyVars, midiVars>>

GruLoad ==
    /\ \E fname \in {ModelPath(GruSelf), OtherPath} : GruReturn(gru_load(GruSelf, disk, fname))
    /\ UNCHANGED <<classifyVars, midiVars>>

GruSave ==
    /\ GruReturn(gru_save(GruSelf, disk, OtherPath))
    /\ UNCHANGED <<classifyVars, midiVars>>

Train ==
    /\ \E epochs \in 1..MaxEpochs, fit_ok \in BOOLEAN :
          /\ model.fitted + epochs <= MaxFitted
          /\ GruReturn(train(GruSelf, disk, epochs, fit_ok))
    /\ UNCHANGED <<classifyVars, midiVars>>

InitGruSpec == InitGru /\ InitClassifyIdle /\ InitMidiIdle

NextGru == Build \/ SetModel \/ GruLoad \/ GruSave \/ Train

SpecGru == InitGruSpec /\ [][NextGru]_vars

(***************************************************************************)
(* The classification chain on its own, over every name, program and flag  *)
(***************************************************************************)
InitClassify ==
    /\ track \in ClassifyInputs
    /\ analysis = EmptyAnalysis
    /\ fatal = FALSE
    /\ cpc = "start"
    /\ InitMidiIdle
    /\ InitGruIdle

Classify ==
    /\ cpc = "start"
    /\ analysis' = AnalyseTrack(analysis, track).analysis
    /\ fatal' = AnalyseTrack(analysis, track).fatal
    /\ cpc' = "done"
    /\ UNCHANGED <<track, midiVars, gruVars>>

NextClassify == Classify

SpecClassify == InitClassify /\ [][NextClassify]_vars

(***************************************************************************)
(* Claims about the classification chain                                   *)
(***************************************************************************)
Count(b) == IF b THEN 1 ELSE 0

\* C1: the chain puts every track into exactly one of piano, bass, drums, other
\* or the fatal branch (one counter goes up by one, or the call returns -1), and
\* the one it picks is the first of piano, bass, drum, other whose predicate
\* holds for the track; the fatal branch is taken only when none holds.
C1_ClassifiedOnceInOrder ==
    cpc = "done" =>
        /\ analysis.piano + analysis.bass + analysis.drums + analysis.other
              + Count(fatal) = 1
        /\ (analysis.piano = 1) <=> is_piano(track)
        /\ (analysis.bass = 1) <=> (~is_piano(track) /\ is_bass(track))
        /\ (analysis.drums = 1) <=>
              (~is_piano(track) /\ ~is_bass(track) /\ is_drum(track))
        /\ (analysis.other = 1) <=>
              (~is_piano(track) /\ ~is_bass(track) /\ ~is_drum(track) /\ is_other(track))
        /\ fatal <=>
              ~(is_piano(track) \/ is_bass(track) \/ is_drum(track) \/ is_other(track))

\* a track that three predicates accept and the chain counts as bass
C1_Witness ==
    /\ cpc = "done"
    /\ analysis.bass = 1
    /\ is_bass(track) /\ is_drum(track) /\ is_other(track)

\* the else branch of the chain is never taken: the program tests of is_piano,
\* is_bass and is_other cover every integer
NeverFatal == ~fatal

(***************************************************************************)
(* Claims about the Midi object                                            *)
(***************************************************************************)
RECURSIVE Concat(_, _)
Concat(rolls, k) ==
    IF k > Len(rolls) THEN <<>> ELSE rolls[k].rows \o Concat(rolls, k + 1)

\* C2: the window of the cut runs from MIDDLE_C - notes_above to
\* MIDDLE_C + notes_above, is symmetric around MIDDLE_C and has width exactly
\* num_pitches: every roll load_midi cuts has num_pitches columns.
C2_WindowWidthIsNumPitches ==
    (last.op = "load_midi" /\ cut) =>
        /\ SliceStart(MIDDLE_C - notes_above, MIDI_INPUTS) = MIDDLE_C - notes_above
        /\ MIDDLE_C - SliceStart(MIDDLE_C - notes_above, MIDI_INPUTS) = notes_above
        /\ SliceWidth(MIDDLE_C - notes_above, MIDDLE_C + notes_above, MIDI_INPUTS)
              = num_pitches
        /\ \A k \in 1..Len(last.rolls) : last.rolls[k].w = num_pitches

\* C3: after load_midi (any call that did not return -1) the merged roll has the
\* pitch width of each per-file roll, its length is the sum of their lengths, and
\* it is the per-file rolls one after the other in input order, with cut or without.
C3_MergeIsConcatenation ==
    (last.op = "load_midi" /\ last.status # "sentinel") =>
        /\ last.status = "ok"
        /\ \A k \in 1..Len(last.rolls) : last.rolls[k].w = roll.w
        /\ Len(roll.rows) = SumLen(last.rolls, 1)
        /\ roll.rows = Concat(last.rolls, 1)

\* C4: vectorise on a roll of length L with lookback W and step S returns
\* ceil((L - W) / S) pairs (none when L <= W); phrase j is roll[j*S : j*S + W]
\* and label j is roll[j*S + W]; no index is outside the roll; and the call
\* returns whenever the roll has num_pitches columns.
C4_VectoriseWindows ==
    last.op = "vectorise" =>
        LET L == Len(roll.rows)
            W == last.lookback
            S == last.step
            count == IF L > W THEN (L - W + S - 1) \div S ELSE 0
        IN  /\ last.status # "IndexError"
            /\ (roll.set /\ roll.w = num_pitches) => last.status = "ok"
            /\ last.status = "ok" =>
                  /\ Len(last.x) = count
                  /\ Len(last.y) = count
                  /\ \A j \in 0..(count - 1) :
                        /\ j * S + W < L
                        /\ last.x[j + 1] = [i \in 1..W |-> roll.rows[j * S + i]]
                        /\ last.y[j + 1] = roll.rows[j * S + W + 1]

\* a call with step 2 where (L - W) is odd, so that the count is rounded up
C4_Witness ==
    /\ last.op = "vectorise"
    /\ last.status = "ok"
    /\ last.step = 2
    /\ last.lookback >= 1
    /\ (Len(roll.rows) - last.lookback) % 2 = 1
    /\ Len(last.x) >= 2

RECURSIVE FullRows(_, _)
FullRows(fnames, k) ==
    IF k > Len(fnames) THEN <<>>
    ELSE (IF Len(FileKept[fnames[k]]) = 0 THEN <<>> ELSE FileBlend[fnames[k]])
         \o FullRows(fnames, k + 1)

\* C6: cutting full-width rolls to the window in load_midi and then calling
\* reformat_roll gives, for any num_pitches, a 128-pitch roll of the same length
\* that is zero outside the window and equal to the original roll inside it.
C6_CutThenReformat ==
    /\ (last.op = "load_midi" /\ cut /\ last.status # "sentinel") => last.status = "ok"
    /\ (last.op = "reformat_roll" /\ last.after = "load_midi" /\ cut /\ roll.set) =>
          /\ last.status = "ok"
          /\ last.export.w = MIDI_INPUTS
          /\ Len(last.export.rows) = Len(FullRows(last.fnames, 1))
          /\ \A i \in 1..Len(last.export.rows) :
                last.export.rows[i] =
                    {p \in FullRows(last.fnames, 1)[i] :
                        MIDDLE_C - notes_above <= p /\ p < MIDDLE_C + notes_above}

\* C8: a track that no predicate accepts makes load_midi return -1 at that
\* track and leaves self.roll as it was.
C8_AbortKeepsRoll ==
    (last.op = "load_midi" /\ last.status = "sentinel") => roll = last.pre

\* load_midi never returns its sentinel
NeverSentinel == ~(last.op = "load_midi" /\ last.status = "sentinel")

\* per file: the tracks that are piano and neither drum, bass nor other, and how
\* many of the kept tracks the chain counts as piano
PianoOnlyOf ==
    [f \in FileLib |->
        SelectSeq(f.tracks,
                  LAMBDA x : is_piano(x) /\ ~is_drum(x) /\ ~is_bass(x) /\ ~is_other(x))]

PianoOnly(f) == PianoOnlyOf[f]

KeptCountedAsPiano ==
    [f \in FileLib |->
        \A k \in 1..Len(FileKept[f]) :
            AnalyseTrack(EmptyAnalysis, FileKept[f][k]).analysis.piano = 1]

SomeDroppedCountedAsPiano ==
    [f \in FileLib |->
        \E k \in 1..Len(f.tracks) :
            /\ ~KeepTrack(f.tracks[k])
            /\ AnalyseTrack(EmptyAnalysis, f.tracks[k]).analysis.piano = 1]

\* the rolls load_midi has to collect: one per file with a piano-only track
RECURSIVE ExpectedRolls(_, _, _, _)
ExpectedRolls(fnames, k, c, na) ==
    IF k > Len(fnames) THEN <<>>
    ELSE (IF Len(PianoOnly(fnames[k])) = 0 THEN <<>>
          ELSE <<Refine(Blend(PianoOnly(fnames[k])), c, na)>>)
         \o ExpectedRolls(fnames, k + 1, c, na)

\* C9: load_midi keeps a track iff it is piano and none of drum, bass, other, so
\* every kept track is one the chain counts as piano; a file without a kept
\* track adds no rows and does not stop the batch: the rolls collected are those
\* of every file with a kept track, in input order, and a call that merges them
\* stores as many rows as they have.
C9_PianoOnlyAndSkip ==
    last.op = "load_midi" =>
        /\ \A i \in 1..Len(last.fnames) :
              /\ FileKept[last.fnames[i]] = PianoOnly(last.fnames[i])
              /\ KeptCountedAsPiano[last.fnames[i]]
        /\ last.rolls = ExpectedRolls(last.fnames, 1, cut, notes_above)
        /\ last.status = "ok" =>
              Len(roll.rows) = SumLen(ExpectedRolls(last.fnames, 1, cut, notes_above), 1)

\* a file whose tracks are all dropped (one of them counted as piano by the
\* chain), followed by a file whose rows are merged
C9_Witness ==
    /\ last.op = "load_midi"
    /\ last.status = "ok"
    /\ Len(last.fnames) = 2
    /\ Len(FileKept[last.fnames[1]]) = 0
    /\ SomeDroppedCountedAsPiano[last.fnames[1]]
    /\ Len(FileKept[last.fnames[2]]) > 0
    /\ Len(roll.rows) > 0
    /\ roll.rows = Refine(FileBlend[last.fnames[2]], cut, notes_above).rows

\* C10: whenever self.roll is set its pitch width is num_pitches and, when cut
\* is true, 2 * notes_above (stated for the rolls a call without a reported
\* error leaves: no wider than a MIDI roll, and with a row in them).
C10_RollWidthMatches ==
    (roll.set /\ roll.w <= MIDI_INPUTS /\ Len(roll.rows) > 0) =>
        /\ roll.w = num_pitches
        /\ cut => roll.w = 2 * notes_above

(***************************************************************************)
(* Claims about the model wrapper                                          *)
(***************************************************************************)
\* C7: the wrapper starts unbuilt; build, set_model and a load that returns
\* leave it built, and no call leaves a built wrapper unbuilt; a train call on
\* an unbuilt wrapper fails and writes nothing; a train call that returns has
\* saved the fitted model at model_dir + name + ".h5", replacing what was there
\* and touching no other file.
C7_TrainSavesWhenBuilt ==
    /\ ~model.built
    /\ [][ /\ model.built => model'.built
           /\ (glast'.op \in {"build", "set_model"}) => model'.built
           /\ (glast'.op = "load" /\ glast'.status = "ok") => model'.built
           /\ (glast'.op = "train" /\ ~model.built) =>
                 /\ glast'.status = "AttributeError"
                 /\ disk' = disk
                 /\ ~model'.built
           /\ (glast'.op = "train" /\ glast'.status = "ok") =>
                 /\ model.built
                 /\ model'.fitted = model.fitted + glast'.epochs
                 /\ DOMAIN disk' = (DOMAIN disk) \cup {model_dir \o name \o Ext_h5}
                 /\ disk'[model_dir \o name \o Ext_h5] = model'
                 /\ \A q \in DOMAIN disk : q # model_dir \o name \o Ext_h5 => disk'[q] = disk[q]
         ]_vars

\* a second train call has replaced the file the first one wrote
C7_Witness ==
    /\ glast.op = "train"
    /\ glast.status = "ok"
    /\ model.fitted = 2
    /\ glast.epochs = 1
    /\ (model_dir \o name \o Ext_h5) \in DOMAIN disk
    /\ disk[model_dir \o name \o Ext_h5] = model

====
